---------------------------- MODULE Spec2Model ----------------------------
(***************************************************************************)
(* A model of the ByteArray class of src/src/index.ts: a Node.js Buffer    *)
(* with a cursor (position), a byte order (endian) and an object encoding. *)
(*                                                                         *)
(* Numbers.  A JavaScript number that may leave the range of a 32-bit      *)
(* integer is written as a pair <<hi, lo>> standing for hi * 65536 + lo    *)
(* with lo in 0..65535 (a "wide" number), so that 2^31, 2^32 - 1 and       *)
(* -2^31 - 1 are all exact.  Bytes, positions and lengths are Integers.    *)
(*                                                                         *)
(* Strings.  A JavaScript string is the sequence of its code points.       *)
(*                                                                         *)
(* Buffers.  A Buffer is a view [id, len] of the first len bytes of the    *)
(* memory mem[id]; two Buffers with the same id share their bytes, as a    *)
(* Buffer and its slice(0, n) do.                                          *)
(***************************************************************************)
EXTENDS Integers, Sequences, FiniteSets, TLC

VARIABLES
  mem,      \* memory id -> the bytes of that backing store
  obj,      \* instance -> [buffer, position, endian, objectEncoding]
  pending,  \* LZMA callbacks not yet run: set of [inst, out]
  ret,      \* what the last call returned, [t |-> kind, v |-> value]
  err,      \* what the last call threw, "none" when it returned
  last,     \* the last call: [op, this, args] and the state it started from
  ops,      \* number of calls made so far
  so,       \* the caller of signedOverflow: [value, bits, stage, r1, r2]
  prog      \* the caller's program counter in the scripted scenarios

vars == <<mem, obj, pending, ret, err, last, ops, so, prog>>

-----------------------------------------------------------------------------
(* Bounds of the model *)

\* calls made on the two instances in one behaviour of Spec
MaxOps == 2
\* largest position or length argument the caller passes
MaxArg == 3

-----------------------------------------------------------------------------
(* Wide numbers and the 32-bit integer operators of JavaScript *)

RECURSIVE Pow2(_)
Pow2(k) == IF k = 0 THEN 1 ELSE 2 * Pow2(k - 1)

W(hi, lo) == <<hi, lo>>

\* the wide number hi * 65536 + lo for any integer lo
Norm(hi, lo) == <<hi + (lo \div 65536), lo % 65536>>

\* an Integer as a wide number
ToWide(n) == Norm(0, n)

\* a wide number that fits an Integer, as that Integer
FromWide(w) == w[1] * 65536 + w[2]

WSub(a, b) == Norm(a[1] - b[1], a[2] - b[2])

WLess(a, b) == a[1] < b[1] \/ (a[1] = b[1] /\ a[2] < b[2])

\* a == b modulo 2^k, for k in {8, 16, 32}
WCongruent(a, b, k) ==
  LET d == WSub(a, b)
  IN  CASE k = 8  -> d[2] % 256 = 0
        [] k = 16 -> d[2] = 0
        [] k = 32 -> d[2] = 0 /\ d[1] % 65536 = 0

\* ECMAScript ToInt32: the value modulo 2^32, read as a signed 32-bit integer
ToInt32(w) == <<((w[1] + 32768) % 65536) - 32768, w[2]>>

\* bitwise and of two numbers in 0..65535
BitAnd16(x, y) ==
  LET RECURSIVE and(_, _, _)
      and(a, b, n) ==
        IF n = 0 THEN 0
        ELSE (IF a % 2 = 1 /\ b % 2 = 1 THEN 1 ELSE 0)
             + 2 * and(a \div 2, b \div 2, n - 1)
  IN  and(x, y, 16)

\* the & operator: both operands through ToInt32, the result a signed 32-bit
JsAnd(a, b) ==
  LET x == ToInt32(a)
      y == ToInt32(b)
  IN  ToInt32(<<BitAnd16(x[1] % 65536, y[1] % 65536), BitAnd16(x[2], y[2])>>)

\* the << operator with left operand 1: the count is taken modulo 32 and the
\* result is a signed 32-bit integer, so 1 << 31 is -2^31
JsShl1(count) ==
  LET k == count % 32
  IN  IF k < 16 THEN <<0, Pow2(k)>> ELSE ToInt32(<<Pow2(k - 16), 0>>)

\* ByteArray.signedOverflow
\* mutant of signedOverflow: the two terms are subtracted the other way round
signedOverflowSwapped(value, bits) ==
  LET sign == JsShl1(bits - 1)
  IN  WSub(JsAnd(value, sign), JsAnd(value, WSub(sign, ToWide(1))))

signedOverflow(value, bits) ==
  LET sign == JsShl1(bits - 1)
  IN  WSub(JsAnd(value, WSub(sign, ToWide(1))), JsAnd(value, sign))

-----------------------------------------------------------------------------
(* Byte layouts of the Buffer read and write methods *)

Reverse(bs) == [j \in 1 .. Len(bs) |-> bs[Len(bs) + 1 - j]]

Zeros(n) == [j \in 1 .. n |-> 0]

\* the bytes in the order the byte order asks for, given most significant first
Layout(bs, endian) == IF endian = "BE" THEN bs ELSE Reverse(bs)

\* the position of the highest set bit of n > 0
RECURSIVE Log2(_)
Log2(n) == IF n <= 1 THEN 0 ELSE 1 + Log2(n \div 2)

UInt16Bytes(n) == <<n \div 256, n % 256>>

\* a signed 16-bit integer in two's complement
Int16Bytes(n) == UInt16Bytes(n % 65536)

\* a wide number in 0 .. 2^32 - 1
UInt32Bytes(w) == UInt16Bytes(w[1]) \o UInt16Bytes(w[2])

\* a BigInt of small magnitude as a signed 64-bit integer in two's complement
Int64Bytes(n) ==
  LET w == ToWide(n)
  IN  (IF n < 0 THEN <<255, 255, 255, 255>> ELSE <<0, 0, 0, 0>>)
      \o UInt32Bytes(<<w[1] % 65536, w[2]>>)

DecUInt16(bs) == bs[1] * 256 + bs[2]

DecInt16(bs) == IF bs[1] >= 128 THEN DecUInt16(bs) - 65536 ELSE DecUInt16(bs)

DecInt8(b) == IF b >= 128 THEN b - 256 ELSE b

DecUInt32(bs) == <<bs[1] * 256 + bs[2], bs[3] * 256 + bs[4]>>

DecInt32(bs) == ToInt32(DecUInt32(bs))

\* The IEEE-754 single precision encoding, most significant byte first, of an
\* integer w with |w| <= 2^32, rounded to nearest, ties to even: what
\* writeFloatBE stores for a number that is an integer.
FloatBits(w) ==
  LET neg  == w[1] < 0
      a    == IF neg THEN Norm(-w[1], -w[2]) ELSE w
      e0   == IF a[1] > 0 THEN 16 + Log2(a[1]) ELSE Log2(a[2])
      s    == e0 - 23
      q    == a[1] * (65536 \div Pow2(s)) + (a[2] \div Pow2(s))
      r    == a[2] % Pow2(s)
      half == Pow2(s - 1)
      up   == r > half \/ (r = half /\ q % 2 = 1)
      m0   == IF e0 <= 23 THEN FromWide(a) * Pow2(23 - e0)
              ELSE q + (IF up THEN 1 ELSE 0)
      m    == IF m0 = Pow2(24) THEN Pow2(23) ELSE m0
      e    == IF m0 = Pow2(24) THEN e0 + 1 ELSE e0
      E    == e + 127
      frac == m - Pow2(23)
  IN  IF a = <<0, 0>> THEN <<0, 0, 0, 0>>
      ELSE << (IF neg THEN 128 ELSE 0) + (E \div 2),
              (E % 2) * 128 + (frac \div 65536),
              (frac \div 256) % 256,
              frac % 256 >>

-----------------------------------------------------------------------------
(* UTF-8, as Buffer.byteLength, iconv-lite's encode and decode compute it *)

\* the number of bytes of one code point
CpLen(c) == IF c < 128 THEN 1 ELSE IF c < 2048 THEN 2 ELSE IF c < 65536 THEN 3 ELSE 4

CpBytes(c) ==
  CASE c < 128   -> <<c>>
    [] c < 2048  -> <<192 + (c \div 64), 128 + (c % 64)>>
    [] c < 65536 -> <<224 + (c \div 4096), 128 + ((c \div 64) % 64), 128 + (c % 64)>>
    [] OTHER     -> <<240 + (c \div 262144), 128 + ((c \div 4096) % 64),
                      128 + ((c \div 64) % 64), 128 + (c % 64)>>

\* Buffer.byteLength(str)
RECURSIVE byteLength(_)
byteLength(str) == IF str = <<>> THEN 0 ELSE CpLen(Head(str)) + byteLength(Tail(str))

\* encode(str, "utf8")
RECURSIVE encode(_)
encode(str) == IF str = <<>> THEN <<>> ELSE CpBytes(Head(str)) \o encode(Tail(str))

IsCont(b) == b >= 128 /\ b <= 191

\* the bytes a lead byte needs after it, 0 for a byte that starts nothing
Need(b) ==
  CASE b >= 194 /\ b <= 223 -> 1
    [] b >= 224 /\ b <= 239 -> 2
    [] b >= 240 /\ b <= 244 -> 3
    [] OTHER -> 0

\* whether c may follow the lead byte b as its second byte
SecondOk(b, c) ==
  CASE b = 224 -> c >= 160 /\ c <= 191
    [] b = 237 -> c >= 128 /\ c <= 159
    [] b = 240 -> c >= 144 /\ c <= 191
    [] b = 244 -> c >= 128 /\ c <= 143
    [] OTHER   -> IsCont(c)

\* the well-formed prefix of bs that starts at its lead byte: its length
RECURSIVE GoodLen(_, _)
GoodLen(bs, n) ==
  IF n > Need(bs[1]) \/ n + 1 > Len(bs) THEN n
  ELSE IF (n = 1 /\ SecondOk(bs[1], bs[2])) \/ (n > 1 /\ IsCont(bs[n + 1]))
       THEN GoodLen(bs, n + 1)
       ELSE n

CpOf(bs, k) ==
  CASE k = 1 -> (bs[1] % 32) * 64 + (bs[2] % 64)
    [] k = 2 -> ((bs[1] % 16) * 64 + (bs[2] % 64)) * 64 + (bs[3] % 64)
    [] OTHER -> (((bs[1] % 8) * 64 + (bs[2] % 64)) * 64 + (bs[3] % 64)) * 64 + (bs[4] % 64)

\* The UTF-8 decoder: every maximal ill-formed part becomes one U+FFFD.
RECURSIVE utf8Decode(_)
utf8Decode(bs) ==
  IF bs = <<>> THEN <<>>
  ELSE IF bs[1] < 128 THEN <<bs[1]>> \o utf8Decode(Tail(bs))
  ELSE IF Need(bs[1]) = 0 THEN <<65533>> \o utf8Decode(Tail(bs))
  ELSE LET g == GoodLen(bs, 1)
       IN  IF g = Need(bs[1]) + 1
           THEN <<CpOf(bs, Need(bs[1]))>> \o utf8Decode(SubSeq(bs, g + 1, Len(bs)))
           ELSE <<65533>> \o utf8Decode(SubSeq(bs, g + 1, Len(bs)))

\* decode(b, "utf8", {stripBOM}): a leading U+FEFF is dropped when asked for
decode(bs, stripBOM) ==
  LET str == utf8Decode(bs)
  IN  IF stripBOM /\ str # <<>> /\ str[1] = 65279 THEN Tail(str) ELSE str

\* whether "latin1" has a byte for every character of str
Encodable(str) == \A k \in 1 .. Len(str) : str[k] < 256

\* encode(str, charset): the bytes of "latin1" are the code points
encodeAs(str, charset) == IF charset = "latin1" THEN str ELSE encode(str)

\* decode(b, charset, {stripBOM}): the code points of "latin1" are the bytes
decodeAs(bs, charset, stripBOM) == IF charset = "latin1" THEN bs ELSE decode(bs, stripBOM)

\* encodingExists(charset), for the character set names the caller uses
encodingExists(charset) == charset \in {"utf8", "utf-8", "latin1"}

-----------------------------------------------------------------------------
(* The heap: instances, their Buffers, and what a call hands back *)

Inst == {"A", "B"}

Other(i) == IF i = "A" THEN "B" ELSE "A"

Endian == [LITTLE_ENDIAN |-> "LE", BIG_ENDIAN |-> "BE"]

ObjectEncoding == [AMF0 |-> 0, AMF3 |-> 3]

CompressionAlgorithm == [DEFLATE |-> "deflate", LZMA |-> "lzma", ZLIB |-> "zlib"]

\* the values a call returns
Undefined == [t |-> "undefined", v |-> 0]
Num(n)    == [t |-> "number", v |-> n]
Wide(w)   == [t |-> "wide", v |-> w]
Bool(b)   == [t |-> "boolean", v |-> b]
Str(cps)  == [t |-> "string", v |-> cps]
\* a long, a float or a double, named by the bytes that encode it, most
\* significant first
Bits(bs)  == [t |-> "bits", v |-> bs]

\* a call that returned, and a call that threw
Ok(s, value) == [mem |-> s.mem, obj |-> s.obj, pending |-> s.pending, ret |-> value, err |-> "none"]
Throw(s, e)  == [mem |-> s.mem, obj |-> s.obj, pending |-> s.pending, ret |-> Undefined, err |-> e]

\* the state a call left behind
St(r) == [mem |-> r.mem, obj |-> r.obj, pending |-> r.pending]

\* this.buffer, as the bytes it shows
Bytes(s, i) == SubSeq(s.mem[s.obj[i].buffer.id], 1, s.obj[i].buffer.len)

Pos(s, i) == s.obj[i].position

\* this.position = value
WithPos(s, i, value) == [s EXCEPT !.obj[i].position = value]

\* this.position += n
AddPos(s, i, n) == WithPos(s, i, Pos(s, i) + n)

\* this.buffer = <a Buffer newly allocated with these bytes>: the new Buffer
\* shares memory with no other
SetBuffer(s, i, bs) ==
  LET cur == s.obj[i].buffer.id
      nid == IF s.obj[Other(i)].buffer.id = cur THEN 3 - cur ELSE cur
  IN  [s EXCEPT !.mem[nid] = bs, !.obj[i].buffer = [id |-> nid, len |-> Len(bs)]]

\* this.buffer[k] = b: stored in the memory the Buffer views, dropped when k
\* is no index of the Buffer
SetElem(s, i, k, b) ==
  IF k >= 0 /\ k < s.obj[i].buffer.len
  THEN [s EXCEPT !.mem[s.obj[i].buffer.id][k + 1] = b]
  ELSE s

\* this.buffer[k] as a typed array stores it: undefined is stored as 0
Elem(s, i, k) ==
  IF k >= 0 /\ k < s.obj[i].buffer.len THEN s.mem[s.obj[i].buffer.id][k + 1] ELSE 0

\* whether the k bytes at offset lie inside the Buffer: the bounds check of
\* its read and write methods
InBounds(s, i, offset, k) == offset >= 0 /\ offset + k <= s.obj[i].buffer.len

\* the k bytes at offset, most significant first
Field(s, i, offset, k) ==
  Layout(SubSeq(Bytes(s, i), offset + 1, offset + k), s.obj[i].endian)

\* this.buffer.write<Type><endian>(value, offset): a RangeError when the value
\* does not fit the type or the bytes do not fit the Buffer
BufWrite(s, i, fits, bs, offset) ==
  LET RECURSIVE put(_, _)
      put(st, k) ==
        IF k > Len(bs) THEN st ELSE put(SetElem(st, i, offset + k - 1, bs[k]), k + 1)
  IN  IF fits /\ InBounds(s, i, offset, Len(bs))
      THEN Ok(put(s, 1), Undefined)
      ELSE Throw(s, "RangeError")

\* Buffer.prototype.slice(start, end) of the bytes bs
Slice(bs, start, end) ==
  LET n  == Len(bs)
      a0 == IF start < 0 THEN start + n ELSE start
      a  == IF a0 < 0 THEN 0 ELSE IF a0 > n THEN n ELSE a0
      e0 == IF end < 0 THEN end + n ELSE end
      e  == IF e0 < 0 THEN 0 ELSE IF e0 > n THEN n ELSE e0
  IN  SubSeq(bs, a + 1, e)

-----------------------------------------------------------------------------
(* The methods of ByteArray *)

\* convert, for a Buffer that is kept as it is (mem id), an Array that is
\* copied and an integer that is a size
ByteArrayOf(id, len) ==
  [buffer |-> [id |-> id, len |-> len], position |-> 0,
   endian |-> Endian.BIG_ENDIAN, objectEncoding |-> ObjectEncoding.AMF3]

getLength(s, i) == s.obj[i].buffer.len

getBytesAvailable(s, i) == getLength(s, i) - Pos(s, i)

setPosition(s, i, value) ==
  IF value >= 0 THEN Ok(WithPos(s, i, value), Undefined) ELSE Throw(s, "TypeError")

\* mutant of setEndian: the value is stored before it is looked at
setEndianStoresFirst(s, i, value) ==
  LET s1 == [s EXCEPT !.obj[i].endian = value]
  IN  IF value = "LE" \/ value = "BE" THEN Ok(s1, Undefined) ELSE Throw(s1, "TypeError")

setEndian(s, i, value) ==
  IF value = "LE" \/ value = "BE"
  THEN Ok([s EXCEPT !.obj[i].endian = value], Undefined)
  ELSE Throw(s, "TypeError")

setObjectEncoding(s, i, encoding) ==
  IF encoding = ObjectEncoding.AMF0 \/ encoding = ObjectEncoding.AMF3
  THEN Ok([s EXCEPT !.obj[i].objectEncoding = encoding], Undefined)
  ELSE Throw(s, "Error")

\* mutant of expand: the buffer grows by value, whatever is available
expandByValue(s, i, value) ==
  IF getBytesAvailable(s, i) < value
  THEN SetBuffer(s, i, Bytes(s, i) \o Zeros(value))
  ELSE s

expand(s, i, value) ==
  IF getBytesAvailable(s, i) < value
  THEN SetBuffer(s, i, Bytes(s, i) \o Zeros(value - getBytesAvailable(s, i)))
  ELSE s

clear(s, i) == Ok(WithPos(SetBuffer(s, i, <<>>), i, 0), Undefined)

\* The argument of setLength is a number [n, half] standing for n, or for
\* n + 1/2 when half holds.
Number(n) == [n |-> n, half |-> FALSE]

\* Number.isInteger(value)
IsInteger(value) == ~value.half

\* mutant of setLength: a truncation leaves the cursor where it was
setLengthKeepsCursor(s, i, value) ==
  IF ~IsInteger(value) \/ value.n < 0 THEN Throw(s, "TypeError")
  ELSE IF value.n = 0 THEN clear(s, i)
  ELSE IF value.n # getLength(s, i)
       THEN IF value.n < getLength(s, i)
            THEN Ok([s EXCEPT !.obj[i].buffer.len = value.n], Undefined)
            ELSE Ok(expand(s, i, value.n), Undefined)
       ELSE Ok(s, Undefined)

setLength(s, i, value) ==
  IF ~IsInteger(value) \/ value.n < 0 THEN Throw(s, "TypeError")
  ELSE IF value.n = 0 THEN clear(s, i)
  ELSE IF value.n # getLength(s, i)
       THEN IF value.n < getLength(s, i)
            THEN Ok(WithPos([s EXCEPT !.obj[i].buffer.len = value.n], i, value.n), Undefined)
            ELSE Ok(expand(s, i, value.n), Undefined)
       ELSE Ok(s, Undefined)

\* algorithm.toLowerCase(), for the names the caller uses
toLowerCase(algorithm) ==
  CASE algorithm = "ZLIB" -> "zlib"
    [] algorithm = "Deflate" -> "deflate"
    [] OTHER -> algorithm

\* mutant of compress: the cursor is moved before the algorithm is looked at
compressSeeksFirst(s, i, algorithm, out) ==
  IF getLength(s, i) = 0 THEN Ok(s, Undefined)
  ELSE LET a  == toLowerCase(algorithm)
           s0 == WithPos(s, i, getLength(s, i))
       IN  IF a = CompressionAlgorithm.ZLIB \/ a = CompressionAlgorithm.DEFLATE
           THEN LET s1 == SetBuffer(s, i, out)
                IN  Ok(WithPos(s1, i, getLength(s1, i)), Undefined)
           ELSE IF a = CompressionAlgorithm.LZMA
           THEN Ok([s0 EXCEPT !.pending = @ \cup {[inst |-> i, out |-> out]}], Undefined)
           ELSE Throw(s0, "Error")

\* out is what the compression library makes of the bytes: the library is
\* not part of this repository and its output is any byte sequence
compress(s, i, algorithm, out) ==
  IF getLength(s, i) = 0 THEN Ok(s, Undefined)
  ELSE LET a == toLowerCase(algorithm)
       IN  IF a = CompressionAlgorithm.ZLIB \/ a = CompressionAlgorithm.DEFLATE
           THEN LET s1 == SetBuffer(s, i, out)
                IN  Ok(WithPos(s1, i, getLength(s1, i)), Undefined)
           ELSE IF a = CompressionAlgorithm.LZMA
           THEN Ok(WithPos([s EXCEPT !.pending = @ \cup {[inst |-> i, out |-> out]}],
                           i, getLength(s, i)), Undefined)
           ELSE Throw(s, "Error")

\* out.ok tells whether the library accepts the bytes as compressed data
uncompress(s, i, algorithm, out) ==
  IF getLength(s, i) = 0 THEN Ok(s, Undefined)
  ELSE LET a == toLowerCase(algorithm)
       IN  IF a = CompressionAlgorithm.ZLIB \/ a = CompressionAlgorithm.DEFLATE
           THEN IF out.ok
                THEN Ok(WithPos(SetBuffer(s, i, out.bytes), i, 0), Undefined)
                ELSE Throw(s, "Error")
           ELSE IF a = CompressionAlgorithm.LZMA
           THEN Ok(WithPos([s EXCEPT !.pending = @ \cup {[inst |-> i, out |-> out.bytes]}],
                           i, 0), Undefined)
           ELSE Throw(s, "Error")

\* the callback handed to LZMA().compress and LZMA().decompress
lzmaCallback(s, c) ==
  [SetBuffer(s, c.inst, c.out) EXCEPT !.pending = @ \ {c}]

readByte(s, i) ==
  LET s1 == AddPos(s, i, 1)
  IN  IF InBounds(s, i, Pos(s, i), 1)
      THEN Ok(s1, Num(DecInt8(Elem(s, i, Pos(s, i)))))
      ELSE Throw(s1, "RangeError")

readBoolean(s, i) ==
  LET r == readByte(s, i)
  IN  IF r.err # "none" THEN r ELSE Ok(St(r), Bool(r.ret.v # 0))

\* for (let k = 0; k < n; k++) dst.buffer[k + doff] = src.buffer[k + soff]
RECURSIVE CopyLoop(_, _, _, _, _, _, _)
CopyLoop(s, dst, doff, src, soff, k, n) ==
  IF k >= n THEN s
  ELSE CopyLoop(SetElem(s, dst, k + doff, Elem(s, src, k + soff)),
                dst, doff, src, soff, k + 1, n)

readBytes(s, i, bytes, offset, length) ==
  LET n  == IF length = 0 THEN getBytesAvailable(s, i) ELSE length
      s1 == IF getLength(s, bytes) < offset + n THEN expand(s, bytes, offset + n) ELSE s
  IN  IF n > getBytesAvailable(s, i) THEN Throw(s, "RangeError")
      ELSE Ok(AddPos(CopyLoop(s1, bytes, offset, i, Pos(s1, i), 0, n), i, n), Undefined)

\* a read of k bytes through this.buffer.read<Type><endian>(this.position),
\* the cursor then advanced by step
ReadField(s, i, k, step) ==
  IF InBounds(s, i, Pos(s, i), k)
  THEN Ok(AddPos(s, i, step), Bits(Field(s, i, Pos(s, i), k)))
  ELSE Throw(s, "RangeError")

\* the value of a field read, when the read returned
Decoded(r, value) == IF r.err # "none" THEN r ELSE Ok(St(r), value)

readDouble(s, i) == ReadField(s, i, 8, 8)

readFloat(s, i) == ReadField(s, i, 4, 4)

readInt(s, i) ==
  LET r == ReadField(s, i, 4, 4) IN Decoded(r, Wide(DecInt32(r.ret.v)))

readLong(s, i) == ReadField(s, i, 8, 4)

\* mutant of readShort: the two bytes are decoded as an unsigned number
readShortAsUnsigned(s, i) ==
  LET r == ReadField(s, i, 2, 2) IN Decoded(r, Num(DecUInt16(r.ret.v)))

readShort(s, i) ==
  LET r == ReadField(s, i, 2, 2) IN Decoded(r, Num(DecInt16(r.ret.v)))

readUnsignedByte(s, i) ==
  LET s1 == AddPos(s, i, 1)
  IN  IF InBounds(s, i, Pos(s, i), 1)
      THEN Ok(s1, Num(Elem(s, i, Pos(s, i))))
      ELSE Throw(s1, "RangeError")

readUnsignedInt(s, i) ==
  LET r == ReadField(s, i, 4, 4) IN Decoded(r, Wide(DecUInt32(r.ret.v)))

readUnsignedShort(s, i) ==
  LET r == ReadField(s, i, 2, 2) IN Decoded(r, Num(DecUInt16(r.ret.v)))

readUnsignedLong(s, i) == ReadField(s, i, 8, 8)

readMultiByte(s, i, length, charset) ==
  LET position == Pos(s, i)
      s1       == AddPos(s, i, length)
      b        == Slice(Bytes(s1, i), position, Pos(s1, i))
      stripBOM == /\ (charset = "utf8" \/ charset = "utf-8")
                  /\ Len(b) >= 3
                  /\ b[1] = 239 /\ b[2] = 187 /\ b[3] = 191
      value    == decodeAs(b, charset, stripBOM)
      expected == IF stripBOM THEN length - 3 ELSE length
  IN  IF encodingExists(charset)
      THEN IF byteLength(value) # expected
           THEN Throw(s1, "RangeError")
           ELSE Ok(s1, Str(value))
      ELSE Throw(s1, "Error")

readUTF(s, i) ==
  LET r == readUnsignedShort(s, i)
  IN  IF r.err # "none" THEN r ELSE readMultiByte(St(r), i, r.ret.v, "utf8")

readUTFBytes(s, i, length) == readMultiByte(s, i, length, "utf8")

\* a write of the bytes bs (most significant first) through
\* this.buffer.write<Type><endian>(value, this.position) after expand, the
\* cursor advanced when the write returned
WriteField(s, i, fits, bs) ==
  LET k  == IF fits THEN Len(bs) ELSE 0
      r  == BufWrite(s, i, fits, Layout(bs, s.obj[i].endian), Pos(s, i))
  IN  IF r.err # "none" THEN r ELSE Ok(AddPos(St(r), i, k), Undefined)

writeByte(s, i, value) ==
  LET s1 == expand(s, i, 1)
      v  == FromWide(signedOverflow(value, 8))
  IN  BufWrite(AddPos(s1, i, 1), i, v >= -128 /\ v <= 127, <<v % 256>>, Pos(s1, i))

writeBoolean(s, i, value) == writeByte(s, i, IF value THEN ToWide(1) ELSE ToWide(0))

writeBytes(s, i, bytes, offset, length) ==
  LET n  == IF length = 0 THEN getLength(s, bytes) - offset ELSE length
      s1 == expand(s, i, n)
  IN  Ok(AddPos(CopyLoop(s1, i, Pos(s1, i), bytes, offset, 0, n), i, n), Undefined)

\* value names the double by its eight bytes
writeDouble(s, i, value) == WriteField(expand(s, i, 8), i, TRUE, value)

\* value names the float by its four bytes
writeFloat(s, i, value) == WriteField(expand(s, i, 4), i, TRUE, value)

writeInt(s, i, value) ==
  WriteField(expand(s, i, 4), i, TRUE, FloatBits(signedOverflow(value, 32)))

writeLong(s, i, value) == WriteField(expand(s, i, 8), i, TRUE, Int64Bytes(value))

\* mutant of writeMultiByte: the cursor advances by the number of characters
writeMultiByteCountsChars(s, i, value, charset) ==
  LET s1 == AddPos(s, i, Len(value))
  IN  IF encodingExists(charset)
      THEN Ok(SetBuffer(s1, i, Bytes(s1, i) \o encode(value)), Undefined)
      ELSE Throw(s1, "Error")

\* mutant of writeMultiByte: the bytes are stored at the cursor
writeMultiByteAtCursor(s, i, value, charset) ==
  LET bs == encodeAs(value, charset)
      r  == BufWrite(expand(s, i, Len(bs)), i, TRUE, bs, Pos(s, i))
  IN  IF encodingExists(charset)
      THEN Ok(AddPos(St(r), i, byteLength(value)), Undefined)
      ELSE Throw(AddPos(s, i, byteLength(value)), "Error")

writeMultiByte(s, i, value, charset) ==
  LET s1 == AddPos(s, i, byteLength(value))
  IN  IF encodingExists(charset)
      THEN Ok(SetBuffer(s1, i, Bytes(s1, i) \o encodeAs(value, charset)), Undefined)
      ELSE Throw(s1, "Error")

writeShort(s, i, value) ==
  LET v == FromWide(signedOverflow(value, 16))
  IN  WriteField(expand(s, i, 2), i, v >= -32768 /\ v <= 32767, Int16Bytes(v))

writeUnsignedByte(s, i, value) ==
  LET s1 == expand(s, i, 1)
  IN  BufWrite(AddPos(s1, i, 1), i, value >= 0 /\ value <= 255, <<value>>, Pos(s1, i))

writeUnsignedInt(s, i, value) ==
  WriteField(expand(s, i, 4), i, value[1] >= 0 /\ value[1] <= 65535, UInt32Bytes(value))

\* mutant of writeUnsignedShort: the bytes are laid out big-endian whatever
\* the byte order is
writeUnsignedShortBigEndian(s, i, value) ==
  LET r == WriteField(expand([s EXCEPT !.obj[i].endian = Endian.BIG_ENDIAN], i, 2), i,
                      value >= 0 /\ value <= 65535, UInt16Bytes(value))
  IN  [r EXCEPT !.obj[i].endian = s.obj[i].endian]

writeUnsignedShort(s, i, value) ==
  WriteField(expand(s, i, 2), i, value >= 0 /\ value <= 65535, UInt16Bytes(value))

writeUnsignedLong(s, i, value) ==
  WriteField(expand(s, i, 8), i, value >= 0, Int64Bytes(value))

writeUTF(s, i, value) ==
  LET r == writeUnsignedShort(s, i, byteLength(value))
  IN  IF r.err # "none" THEN r ELSE writeMultiByte(St(r), i, value, "utf8")

\* mutant of writeUTFBytes: the encoded string replaces the buffer
writeUTFBytesReplaces(s, i, value) ==
  Ok(SetBuffer(AddPos(s, i, byteLength(value)), i, encode(value)), Undefined)

writeUTFBytes(s, i, value) == writeMultiByte(s, i, value, "utf8")

-----------------------------------------------------------------------------
(* The callers: what they construct and the arguments they pass *)

\* the byte sequences the instances are constructed from
InitBytes ==
  { <<>>,
    <<0, 2, 104, 105>>,
    <<239, 187, 191, 104, 255>>,
    <<128, 0, 0, 1, 0, 0, 0, 2, 3>> }

\* how B is constructed beside A = new ByteArray(buf): from the same Buffer,
\* from an Array of the same bytes, or from a size
Construction == {"buffer", "array", "size"}

PosArgs == -1 .. MaxArg

\* -1 .. MaxArg, and 1.5
LenArgs == { Number(n) : n \in -1 .. MaxArg } \cup { [n |-> 1, half |-> TRUE] }

EndianArgs == {"LE", "BE", "XE"}

EncodingArgs == {0, 3, 1}

AlgorithmArgs == {"zlib", "Deflate", "lzma", "gzip"}

\* what the compression library returns
CompressOut == { <<120>>, <<120, 1, 2, 3, 4, 5>> }

UncompressOut ==
  { [ok |-> FALSE, bytes |-> <<>>], [ok |-> TRUE, bytes |-> <<>>],
    [ok |-> TRUE, bytes |-> <<7, 8, 9>>] }

ByteArgs == { ToWide(-1), ToWide(65), ToWide(200) }

UnsignedByteArgs == { 100, 255, 256 }

ShortArgs == { ToWide(-1), ToWide(258), ToWide(40000) }

UnsignedShortArgs == { 258, 65535, 65536 }

\* 0, 1, -1, 2^31 - 1, -2^31, 2^31
IntArgs == { W(0, 0), W(0, 1), W(-1, 65535), W(32767, 65535), W(-32768, 0), W(32768, 0) }

\* 258, 2^32 - 1, 2^32
UnsignedIntArgs == { W(0, 258), W(65535, 65535), W(65536, 0) }

LongArgs == { -1, 258 }

\* 1.0 and -2.5
FloatArgs == { <<63, 128, 0, 0>>, <<192, 32, 0, 0>> }

\* 1.0
DoubleArgs == { <<63, 240, 0, 0, 0, 0, 0, 0>> }

\* "", "hi", "e" with an acute accent, and U+FEFF followed by "h"
StringArgs == { <<>>, <<104, 105>>, <<233>>, <<65279, 104>> }

CharsetArgs == {"utf8", "latin1", "nope"}

\* the offset and length arguments of readBytes and writeBytes
OffsetArgs == {0, 2}

BulkLengthArgs == {-1, 0, 2}

\* the length argument of readMultiByte and readUTFBytes
LengthArgs == -1 .. MaxArg

-----------------------------------------------------------------------------
(* The specification: two instances and every call a caller can make *)

S == [mem |-> mem, obj |-> obj, pending |-> pending]

Idle == [value |-> W(0, 0), bits |-> 8, stage |-> "idle", r1 |-> W(0, 0), r2 |-> W(0, 0)]

NoProg == [pc |-> "none"]

\* new ByteArray(buf) for A, and B constructed beside it
Constructed(bs, how) ==
  /\ mem = [id \in {1, 2} |->
              IF id = 1 THEN bs
              ELSE IF how = "array" THEN bs
              ELSE IF how = "size" THEN Zeros(2)
              ELSE <<>>]
  /\ obj = [i \in Inst |->
              IF i = "A" \/ how = "buffer" THEN ByteArrayOf(1, Len(bs))
              ELSE ByteArrayOf(2, Len(mem[2]))]
  /\ pending = {}
  /\ ret = Undefined
  /\ err = "none"
  /\ last = [op |-> "new", this |-> "A", args |-> <<how>>,
             pre |-> [mem |-> mem, obj |-> obj, pending |-> pending]]
  /\ ops = 0

Init ==
  /\ \E bs \in InitBytes, how \in Construction : Constructed(bs, how)
  /\ so = Idle
  /\ prog = NoProg

\* the caller's call this.op(args) with the outcome r
Call(i, op, args, r) ==
  /\ mem' = r.mem
  /\ obj' = r.obj
  /\ pending' = r.pending
  /\ ret' = r.ret
  /\ err' = r.err
  /\ last' = [op |-> op, this |-> i, args |-> args, pre |-> S]

\* a call in a behaviour of Spec
Do(i, op, args, r) ==
  /\ ops < MaxOps
  /\ ops' = ops + 1
  /\ Call(i, op, args, r)
  /\ UNCHANGED <<so, prog>>

SetPosition == \E i \in Inst, v \in PosArgs : Do(i, "setPosition", <<v>>, setPosition(S, i, v))

SetEndian == \E i \in Inst, v \in EndianArgs : Do(i, "setEndian", <<v>>, setEndian(S, i, v))

SetObjectEncoding ==
  \E i \in Inst, v \in EncodingArgs : Do(i, "setObjectEncoding", <<v>>, setObjectEncoding(S, i, v))

SetLength == \E i \in Inst, v \in LenArgs : Do(i, "setLength", <<v>>, setLength(S, i, v))

Clear == \E i \in Inst : Do(i, "clear", <<>>, clear(S, i))

Compress ==
  \E i \in Inst, a \in AlgorithmArgs, out \in CompressOut :
    Do(i, "compress", <<a, out>>, compress(S, i, a, out))

Uncompress ==
  \E i \in Inst, a \in AlgorithmArgs, out \in UncompressOut :
    Do(i, "uncompress", <<a, out>>, uncompress(S, i, a, out))

LzmaCallback ==
  \E c \in pending :
    /\ Call(c.inst, "lzmaCallback", <<>>, Ok(lzmaCallback(S, c), Undefined))
    /\ UNCHANGED <<ops, so, prog>>

ReadBoolean == \E i \in Inst : Do(i, "readBoolean", <<>>, readBoolean(S, i))

ReadByte == \E i \in Inst : Do(i, "readByte", <<>>, readByte(S, i))

ReadBytes ==
  \E i \in Inst, b \in Inst, o \in OffsetArgs, n \in BulkLengthArgs :
    Do(i, "readBytes", <<b, o, n>>, readBytes(S, i, b, o, n))

ReadDouble == \E i \in Inst : Do(i, "readDouble", <<>>, readDouble(S, i))

ReadFloat == \E i \in Inst : Do(i, "readFloat", <<>>, readFloat(S, i))

ReadInt == \E i \in Inst : Do(i, "readInt", <<>>, readInt(S, i))

ReadLong == \E i \in Inst : Do(i, "readLong", <<>>, readLong(S, i))

ReadMultiByte ==
  \E i \in Inst, n \in LengthArgs, c \in CharsetArgs :
    Do(i, "readMultiByte", <<n, c>>, readMultiByte(S, i, n, c))

ReadShort == \E i \in Inst : Do(i, "readShort", <<>>, readShort(S, i))

ReadUnsignedByte == \E i \in Inst : Do(i, "readUnsignedByte", <<>>, readUnsignedByte(S, i))

ReadUnsignedInt == \E i \in Inst : Do(i, "readUnsignedInt", <<>>, readUnsignedInt(S, i))

ReadUnsignedShort == \E i \in Inst : Do(i, "readUnsignedShort", <<>>, readUnsignedShort(S, i))

ReadUnsignedLong == \E i \in Inst : Do(i, "readUnsignedLong", <<>>, readUnsignedLong(S, i))

ReadUTF == \E i \in Inst : Do(i, "readUTF", <<>>, readUTF(S, i))

ReadUTFBytes ==
  \E i \in Inst, n \in LengthArgs : Do(i, "readUTFBytes", <<n>>, readUTFBytes(S, i, n))

WriteBoolean ==
  \E i \in Inst, v \in BOOLEAN : Do(i, "writeBoolean", <<v>>, writeBoolean(S, i, v))

WriteByte == \E i \in Inst, v \in ByteArgs : Do(i, "writeByte", <<v>>, writeByte(S, i, v))

WriteBytes ==
  \E i \in Inst, b \in Inst, o \in OffsetArgs, n \in BulkLengthArgs :
    Do(i, "writeBytes", <<b, o, n>>, writeBytes(S, i, b, o, n))

WriteDouble == \E i \in Inst, v \in DoubleArgs : Do(i, "writeDouble", <<v>>, writeDouble(S, i, v))

WriteFloat == \E i \in Inst, v \in FloatArgs : Do(i, "writeFloat", <<v>>, writeFloat(S, i, v))

WriteInt == \E i \in Inst, v \in IntArgs : Do(i, "writeInt", <<v>>, writeInt(S, i, v))

WriteLong == \E i \in Inst, v \in LongArgs : Do(i, "writeLong", <<v>>, writeLong(S, i, v))

WriteMultiByte ==
  \E i \in Inst, v \in StringArgs, c \in CharsetArgs :
    /\ c = "latin1" => Encodable(v)
    /\ Do(i, "writeMultiByte", <<v, c>>, writeMultiByte(S, i, v, c))

WriteShort == \E i \in Inst, v \in ShortArgs : Do(i, "writeShort", <<v>>, writeShort(S, i, v))

WriteUnsignedByte ==
  \E i \in Inst, v \in UnsignedByteArgs : Do(i, "writeUnsignedByte", <<v>>, writeUnsignedByte(S, i, v))

WriteUnsignedInt ==
  \E i \in Inst, v \in UnsignedIntArgs : Do(i, "writeUnsignedInt", <<v>>, writeUnsignedInt(S, i, v))

WriteUnsignedShort ==
  \E i \in Inst, v \in UnsignedShortArgs :
    Do(i, "writeUnsignedShort", <<v>>, writeUnsignedShort(S, i, v))

WriteUnsignedLong ==
  \E i \in Inst, v \in LongArgs : Do(i, "writeUnsignedLong", <<v>>, writeUnsignedLong(S, i, v))

WriteUTF == \E i \in Inst, v \in StringArgs : Do(i, "writeUTF", <<v>>, writeUTF(S, i, v))

WriteUTFBytes ==
  \E i \in Inst, v \in StringArgs : Do(i, "writeUTFBytes", <<v>>, writeUTFBytes(S, i, v))

Next ==
  \/ SetPosition \/ SetEndian \/ SetObjectEncoding \/ SetLength \/ Clear
  \/ Compress \/ Uncompress \/ LzmaCallback
  \/ ReadBoolean \/ ReadByte \/ ReadBytes \/ ReadDouble \/ ReadFloat \/ ReadInt
  \/ ReadLong \/ ReadMultiByte \/ ReadShort \/ ReadUnsignedByte \/ ReadUnsignedInt
  \/ ReadUnsignedShort \/ ReadUnsignedLong \/ ReadUTF \/ ReadUTFBytes
  \/ WriteBoolean \/ WriteByte \/ WriteBytes \/ WriteDouble \/ WriteFloat \/ WriteInt
  \/ WriteLong \/ WriteMultiByte \/ WriteShort \/ WriteUnsignedByte \/ WriteUnsignedInt
  \/ WriteUnsignedShort \/ WriteUnsignedLong \/ WriteUTF \/ WriteUTFBytes

Spec == Init /\ [][Next]_vars

-----------------------------------------------------------------------------
(* A caller of signedOverflow alone: the function applied to a value, and   *)
(* applied again to its result                                              *)

\* 0, 1, -1, 127, 128, 200, 255, 256, -128, -129, 32767, 32768, 40000, 65535,
\* 65536, -32768, -32769, 2^31 - 1, 2^31, -2^31, -2^31 - 1, 2^32 - 1, 2^32,
\* 2^32 + 200
OverflowValues ==
  { ToWide(n) : n \in {0, 1, -1, 127, 128, 200, 255, 256, -128, -129, 32767,
                       32768, 40000, 65535, 65536, -32768, -32769} }
  \cup { W(32767, 65535), W(32768, 0), W(-32768, 0), W(-32769, 65535),
         W(65535, 65535), W(65536, 0), W(65536, 200) }

OverflowBits == {8, 16, 32}

OverflowInit ==
  /\ Constructed(<<>>, "array")
  /\ \E v \in OverflowValues, b \in OverflowBits :
       so = [value |-> v, bits |-> b, stage |-> "in", r1 |-> W(0, 0), r2 |-> W(0, 0)]
  /\ prog = NoProg

OverflowOnce ==
  /\ so.stage = "in"
  /\ so' = [so EXCEPT !.stage = "once", !.r1 = signedOverflow(so.value, so.bits)]
  /\ UNCHANGED <<mem, obj, pending, ret, err, last, ops, prog>>

OverflowTwice ==
  /\ so.stage = "once"
  /\ so' = [so EXCEPT !.stage = "twice", !.r2 = signedOverflow(so.r1, so.bits)]
  /\ UNCHANGED <<mem, obj, pending, ret, err, last, ops, prog>>

OverflowNext == OverflowOnce \/ OverflowTwice

SpecOverflow == OverflowInit /\ [][OverflowNext]_vars

-----------------------------------------------------------------------------
(* A caller that writes a value, seeks back and reads it: instance A, after *)
(* any byte order and any cursor it chose                                   *)

RoundTripTypes ==
  {"int", "byte", "unsignedByte", "short", "unsignedShort", "boolean", "utf"}

\* the values written at any cursor of any buffer
ByteSample == {-128, -1, 0, 127}

UnsignedByteSample == {0, 128, 255}

ShortSample == {-32768, -129, -1, 0, 255, 256, 32767}

UnsignedShortSample == {0, 255, 256, 32768, 65535}

\* the state where the caller writes every value of a type: an empty buffer
\* of its own, the byte order just chosen
WholeDomainHere ==
  /\ prog.pc = "endian"
  /\ getLength(S, "A") = 0
  /\ obj["B"].buffer = [id |-> 2, len |-> 2]

RoundTripValues(type) ==
  CASE type = "int" -> IntArgs
    [] type = "byte" -> IF WholeDomainHere THEN -128 .. 127 ELSE ByteSample
    [] type = "unsignedByte" -> IF WholeDomainHere THEN 0 .. 255 ELSE UnsignedByteSample
    [] type = "short" -> IF WholeDomainHere THEN -32768 .. 32767 ELSE ShortSample
    [] type = "unsignedShort" -> IF WholeDomainHere THEN 0 .. 65535 ELSE UnsignedShortSample
    [] type = "boolean" -> BOOLEAN
    [] type = "utf" -> StringArgs

RoundTripWrite(type, s, v) ==
  CASE type = "int" -> writeInt(s, "A", v)
    [] type = "byte" -> writeByte(s, "A", ToWide(v))
    [] type = "unsignedByte" -> writeUnsignedByte(s, "A", v)
    [] type = "short" -> writeShort(s, "A", ToWide(v))
    [] type = "unsignedShort" -> writeUnsignedShort(s, "A", v)
    [] type = "boolean" -> writeBoolean(s, "A", v)
    [] type = "utf" -> writeUTF(s, "A", v)

RoundTripRead(type, s) ==
  CASE type = "int" -> readInt(s, "A")
    [] type = "byte" -> readByte(s, "A")
    [] type = "unsignedByte" -> readUnsignedByte(s, "A")
    [] type = "short" -> readShort(s, "A")
    [] type = "unsignedShort" -> readUnsignedShort(s, "A")
    [] type = "boolean" -> readBoolean(s, "A")
    [] type = "utf" -> readUTF(s, "A")

RoundTripInit ==
  /\ \E bs \in InitBytes, how \in Construction : Constructed(bs, how)
  /\ so = Idle
  /\ prog = [pc |-> "setup", type |-> "none", v |-> W(0, 0), p |-> 0, n |-> 0]

\* a step of the caller's script, which ends at the first call that throws
Step(op, args, r, pc) ==
  /\ Call("A", op, args, r)
  /\ prog' = [prog EXCEPT !.pc = IF r.err = "none" THEN pc ELSE "threw"]
  /\ UNCHANGED <<ops, so>>

RoundTripSetEndian ==
  /\ prog.pc = "setup"
  /\ \E e \in {"LE", "BE"} : Step("setEndian", <<e>>, setEndian(S, "A", e), "endian")

RoundTripSetPosition ==
  /\ prog.pc \in {"setup", "endian"}
  /\ \E p \in 0 .. MaxArg : Step("setPosition", <<p>>, setPosition(S, "A", p), "cursor")

RoundTripDoWrite ==
  /\ prog.pc \in {"setup", "endian", "cursor"}
  /\ \E type \in RoundTripTypes :
       \E v \in RoundTripValues(type) :
         LET r == RoundTripWrite(type, S, v)
         IN  /\ Call("A", "write", <<type, v>>, r)
             /\ prog' = [pc |-> IF r.err = "none" THEN "written" ELSE "threw",
                         type |-> type, v |-> v, p |-> Pos(S, "A"),
                         n |-> getLength(S, "A")]
             /\ UNCHANGED <<ops, so>>

RoundTripSeek ==
  /\ prog.pc = "written"
  /\ Step("setPosition", <<prog.p>>, setPosition(S, "A", prog.p), "seeked")

RoundTripDoRead ==
  /\ prog.pc = "seeked"
  /\ Step("read", <<prog.type>>, RoundTripRead(prog.type, S), "read")

RoundTripNext ==
  \/ RoundTripSetEndian \/ RoundTripSetPosition \/ RoundTripDoWrite
  \/ RoundTripSeek \/ RoundTripDoRead

SpecRoundTrip == RoundTripInit /\ [][RoundTripNext]_vars

-----------------------------------------------------------------------------
(* A caller that, on an empty big-endian buffer, writes an unsigned byte, a *)
(* string and an int, seeks to 0 and reads the three back                   *)

ScenarioBytes == {0, 100, 255}

ScenarioInit ==
  /\ \E how \in Construction : Constructed(<<>>, how)
  /\ so = Idle
  /\ \E a \in ScenarioBytes, str \in StringArgs, n \in IntArgs :
       prog = [pc |-> "start", a |-> a, s |-> str, i |-> n, got |-> <<>>]

\* a step of the scenario, which ends at the first call that throws
Then(op, args, r, pc) ==
  /\ Call("A", op, args, r)
  /\ prog' = [prog EXCEPT !.pc = IF r.err = "none" THEN pc ELSE "threw",
                          !.got = IF pc \in {"read1", "read2", "read3"}
                                  THEN Append(@, r.ret) ELSE @]
  /\ UNCHANGED <<ops, so>>

ScenarioWriteUnsignedByte ==
  /\ prog.pc = "start"
  /\ Then("writeUnsignedByte", <<prog.a>>, writeUnsignedByte(S, "A", prog.a), "wrote1")

ScenarioWriteUTF ==
  /\ prog.pc = "wrote1"
  /\ Then("writeUTF", <<prog.s>>, writeUTF(S, "A", prog.s), "wrote2")

ScenarioWriteInt ==
  /\ prog.pc = "wrote2"
  /\ Then("writeInt", <<prog.i>>, writeInt(S, "A", prog.i), "wrote3")

ScenarioSeek ==
  /\ prog.pc = "wrote3"
  /\ Then("setPosition", <<0>>, setPosition(S, "A", 0), "seeked")

ScenarioReadUnsignedByte ==
  /\ prog.pc = "seeked"
  /\ Then("readUnsignedByte", <<>>, readUnsignedByte(S, "A"), "read1")

ScenarioReadUTF ==
  /\ prog.pc = "read1"
  /\ Then("readUTF", <<>>, readUTF(S, "A"), "read2")

ScenarioReadInt ==
  /\ prog.pc = "read2"
  /\ Then("readInt", <<>>, readInt(S, "A"), "read3")

ScenarioNext ==
  \/ ScenarioWriteUnsignedByte \/ ScenarioWriteUTF \/ ScenarioWriteInt \/ ScenarioSeek
  \/ ScenarioReadUnsignedByte \/ ScenarioReadUTF \/ ScenarioReadInt

SpecScenario == ScenarioInit /\ [][ScenarioNext]_vars

-----------------------------------------------------------------------------
(* A caller that only writes: instance A starts empty, B holds the bytes    *)
(* that writeBytes copies, and every call made is one that returns          *)

MaxWrites == 3

WriteOps ==
  {"writeBoolean", "writeByte", "writeUnsignedByte", "writeShort", "writeUnsignedShort",
   "writeInt", "writeUnsignedInt", "writeFloat", "writeLong", "writeUnsignedLong",
   "writeDouble", "writeUTF", "writeUTFBytes", "writeMultiByte", "writeBytes"}

\* the arguments the caller passes to a write
WriteArgs(op) ==
  CASE op = "writeBoolean" -> BOOLEAN
    [] op = "writeByte" -> ByteArgs
    [] op = "writeUnsignedByte" -> UnsignedByteArgs
    [] op = "writeShort" -> ShortArgs
    [] op = "writeUnsignedShort" -> UnsignedShortArgs
    [] op = "writeInt" -> IntArgs
    [] op = "writeUnsignedInt" -> UnsignedIntArgs
    [] op = "writeFloat" -> FloatArgs
    [] op \in {"writeLong", "writeUnsignedLong"} -> LongArgs
    [] op = "writeDouble" -> DoubleArgs
    [] op \in {"writeUTF", "writeUTFBytes", "writeMultiByte"} -> StringArgs
    [] op = "writeBytes" ->
         [bytes : Inst, offset : OffsetArgs, length : BulkLengthArgs \ {-1}]

\* A.op(v)
WriteCall(s, op, v) ==
  CASE op = "writeBoolean" -> writeBoolean(s, "A", v)
    [] op = "writeByte" -> writeByte(s, "A", v)
    [] op = "writeUnsignedByte" -> writeUnsignedByte(s, "A", v)
    [] op = "writeShort" -> writeShort(s, "A", v)
    [] op = "writeUnsignedShort" -> writeUnsignedShort(s, "A", v)
    [] op = "writeInt" -> writeInt(s, "A", v)
    [] op = "writeUnsignedInt" -> writeUnsignedInt(s, "A", v)
    [] op = "writeFloat" -> writeFloat(s, "A", v)
    [] op = "writeLong" -> writeLong(s, "A", v)
    [] op = "writeUnsignedLong" -> writeUnsignedLong(s, "A", v)
    [] op = "writeDouble" -> writeDouble(s, "A", v)
    [] op = "writeUTF" -> writeUTF(s, "A", v)
    [] op = "writeUTFBytes" -> writeUTFBytes(s, "A", v)
    [] op = "writeMultiByte" -> writeMultiByte(s, "A", v, "utf8")
    [] op = "writeBytes" -> writeBytes(s, "A", v.bytes, v.offset, v.length)

\* the number of bytes the write A.op(v) is to produce in state s
Produced(s, op, v) ==
  CASE op \in {"writeBoolean", "writeByte", "writeUnsignedByte"} -> 1
    [] op \in {"writeShort", "writeUnsignedShort"} -> 2
    [] op \in {"writeInt", "writeUnsignedInt", "writeFloat"} -> 4
    [] op \in {"writeLong", "writeUnsignedLong", "writeDouble"} -> 8
    [] op = "writeUTF" -> 2 + byteLength(v)
    [] op \in {"writeUTFBytes", "writeMultiByte"} -> byteLength(v)
    [] op = "writeBytes" ->
         IF v.length = 0 THEN getLength(s, v.bytes) - v.offset ELSE v.length

WritesInit ==
  /\ mem = [id \in {1, 2} |-> IF id = 1 THEN <<>> ELSE <<0, 2, 104, 105>>]
  /\ obj = [i \in Inst |-> IF i = "A" THEN ByteArrayOf(1, 0) ELSE ByteArrayOf(2, 4)]
  /\ pending = {}
  /\ ret = Undefined
  /\ err = "none"
  /\ last = [op |-> "new", this |-> "A", args |-> <<"array">>,
             pre |-> [mem |-> mem, obj |-> obj, pending |-> pending]]
  /\ ops = 0
  /\ so = Idle
  /\ prog = [pc |-> "writes", k |-> 0, n |-> 0]

\* one more write that returns and produces no negative number of bytes
WritesDo ==
  /\ prog.k < MaxWrites
  /\ \E op \in WriteOps :
       \E v \in WriteArgs(op) :
         LET r == WriteCall(S, op, v)
         IN  /\ r.err = "none"
             /\ Produced(S, op, v) >= 0
             /\ Call("A", op, <<v>>, r)
             /\ prog' = [prog EXCEPT !.k = @ + 1, !.n = @ + Produced(S, op, v)]
             /\ UNCHANGED <<ops, so>>

WritesNext == WritesDo

SpecWrites == WritesInit /\ [][WritesNext]_vars

-----------------------------------------------------------------------------
(* A caller that reads strings: instance A holds bytes that are or are not  *)
(* UTF-8, the caller seeks into them and asks for a string                  *)

MaxRead == 8

\* "hi" with its length before it; the byte-order mark, "h" and a byte that
\* is no UTF-8; a length of 3 before one such byte; a length of 6 before the
\* byte-order mark; the first two bytes of a character of three; "hi" after
\* a byte that never occurs in UTF-8
StringBytes ==
  { <<>>,
    <<0, 2, 104, 105>>,
    <<239, 187, 191, 104, 255>>,
    <<0, 3, 255>>,
    <<0, 6, 239, 187, 191>>,
    <<226, 130>>,
    <<192, 104, 105>> }

StringReadInit ==
  /\ \E bs \in StringBytes : Constructed(bs, "array")
  /\ so = Idle
  /\ prog = [pc |-> "start"]

\* a step of the caller, who makes no call after a read
Reads(op, args, r, pc) ==
  /\ Call("A", op, args, r)
  /\ prog' = [pc |-> pc]
  /\ UNCHANGED <<ops, so>>

StringSeek ==
  /\ prog.pc = "start"
  /\ \E p \in 0 .. getLength(S, "A") :
       Reads("setPosition", <<p>>, setPosition(S, "A", p), "seeked")

StringReadMultiByte ==
  /\ prog.pc \in {"start", "seeked"}
  /\ \E n \in 0 .. MaxRead, c \in CharsetArgs :
       Reads("readMultiByte", <<n, c>>, readMultiByte(S, "A", n, c), "done")

StringReadUTFBytes ==
  /\ prog.pc \in {"start", "seeked"}
  /\ \E n \in 0 .. MaxRead :
       Reads("readUTFBytes", <<n>>, readUTFBytes(S, "A", n), "done")

StringReadUTF ==
  /\ prog.pc \in {"start", "seeked"}
  /\ Reads("readUTF", <<>>, readUTF(S, "A"), "done")

StringReadNext ==
  \/ StringSeek \/ StringReadMultiByte \/ StringReadUTFBytes \/ StringReadUTF

SpecStringRead == StringReadInit /\ [][StringReadNext]_vars

-----------------------------------------------------------------------------
(* The claims *)

\* the least and the greatest signed integer of b bits, as wide numbers
MinSigned(b) == IF b = 32 THEN W(-32768, 0) ELSE ToWide(0 - Pow2(b - 1))
MaxSigned(b) == IF b = 32 THEN W(32767, 65535) ELSE ToWide(Pow2(b - 1) - 1)

InSigned(w, b) == ~WLess(w, MinSigned(b)) /\ ~WLess(MaxSigned(b), w)

FixedReads ==
  {"readByte", "readUnsignedByte", "readBoolean", "readShort", "readUnsignedShort",
   "readInt", "readUnsignedInt", "readFloat", "readLong", "readUnsignedLong", "readDouble"}

\* the width in bytes of the type a fixed-width read decodes
Width(op) ==
  CASE op \in {"readByte", "readUnsignedByte", "readBoolean"} -> 1
    [] op \in {"readShort", "readUnsignedShort"} -> 2
    [] op \in {"readInt", "readUnsignedInt", "readFloat"} -> 4
    [] op \in {"readLong", "readUnsignedLong", "readDouble"} -> 8

\* what a caller observes through instance i
Observed(s, i) == [bytes |-> Bytes(s, i), position |-> Pos(s, i)]

\* the calls that write to, resize or clear the instance they are made on
LocalWrites ==
  {"writeBoolean", "writeByte", "writeDouble", "writeFloat", "writeInt", "writeLong",
   "writeMultiByte", "writeShort", "writeUnsignedByte", "writeUnsignedInt",
   "writeUnsignedShort", "writeUnsignedLong", "writeUTF", "writeUTFBytes",
   "setLength", "clear"}

KnownAlgorithm(a) ==
  toLowerCase(a) \in {CompressionAlgorithm.ZLIB, CompressionAlgorithm.DEFLATE,
                      CompressionAlgorithm.LZMA}

\* C1: for both byte orders and every 32-bit signed value v, writeInt(v) at
\* position p, then setPosition(p), then readInt() returns v.
C1_WriteIntReadIntRoundTrip ==
  (prog.pc \in {"read", "threw"} /\ prog.type = "int" /\ InSigned(prog.v, 32))
    => (prog.pc = "read" /\ ret.t = "wide" /\ ret.v = prog.v)

\* C2: every fixed-width read that returns advances position by exactly the
\* width of its type: 1 for the byte reads and readBoolean, 2 for the short
\* reads, 4 for the int reads and readFloat, 8 for the long reads and readDouble.
C2_ReadAdvancesByWidth ==
  (last.op \in FixedReads /\ err = "none")
    => Pos(S, last.this) = Pos(last.pre, last.this) + Width(last.op)

\* C3: for b in {8, 16, 32} and every integer v, signedOverflow(v, b) lies in
\* [-2^(b-1), 2^(b-1) - 1] and is congruent to v modulo 2^b; signedOverflow(200, 8)
\* is -56, signedOverflow(40000, 16) is -25536, signedOverflow(2^31, 32) is -2^31.
C3_SignedOverflowWraps ==
  so.stage \in {"once", "twice"}
    => /\ InSigned(so.r1, so.bits)
       /\ WCongruent(so.r1, so.value, so.bits)
       /\ (so.value = ToWide(200) /\ so.bits = 8) => so.r1 = ToWide(-56)
       /\ (so.value = ToWide(40000) /\ so.bits = 16) => so.r1 = ToWide(-25536)
       /\ (so.value = W(32768, 0) /\ so.bits = 32) => so.r1 = W(-32768, 0)

\* C4: from an empty big-endian buffer, writeUnsignedByte(a); writeUTF(s);
\* writeInt(i) gives length 1 + (2 + utf8len(s)) + 4, and after setPosition(0)
\* readUnsignedByte(), readUTF(), readInt() return a, s, i and leave
\* bytesAvailable() = 0.
C4_WriteThenReadBack ==
  (prog.pc \in {"read3", "threw"} /\ InSigned(prog.i, 32))
    => /\ prog.pc = "read3"
       /\ getLength(S, "A") = 1 + (2 + byteLength(prog.s)) + 4
       /\ prog.got[1].t = "number" /\ prog.got[1].v = prog.a
       /\ prog.got[2].t = "string" /\ prog.got[2].v = prog.s
       /\ prog.got[3].t = "wide" /\ prog.got[3].v = prog.i
       /\ getBytesAvailable(S, "A") = 0

\* C5: from every state and for every integer n > length(), after setLength(n)
\* the length is n, the old bytes are unchanged, every byte from the old
\* length on is zero, and position is unchanged.
C5_SetLengthGrowsToExactly ==
  LET i   == last.this
      n   == last.args[1].n
      old == Bytes(last.pre, i)
      new == Bytes(S, i)
  IN  (last.op = "setLength" /\ IsInteger(last.args[1]) /\ n > Len(old))
        => /\ err = "none"
           /\ Len(new) = n
           /\ SubSeq(new, 1, Len(old)) = old
           /\ \A k \in Len(old) + 1 .. Len(new) : new[k] = 0
           /\ Pos(S, i) = Pos(last.pre, i)

\* C6: bytesAvailable() is never negative: after any sequence of calls, also
\* calls that throw, position <= length().
C6_PositionWithinLength == \A i \in Inst : getBytesAvailable(S, i) >= 0

\* C7: position is never negative, whatever integer arguments the calls get.
C7_PositionNonNegative == \A i \in Inst : Pos(S, i) >= 0

\* C8: a fixed-width read with fewer bytes available than its width throws an
\* end-of-buffer (range) error and leaves position and storage unchanged.
C8_ShortReadFailsUnchanged ==
  LET i == last.this
  IN  (last.op \in FixedReads /\ getBytesAvailable(last.pre, i) < Width(last.op))
        => /\ err = "RangeError"
           /\ Pos(S, i) = Pos(last.pre, i)
           /\ Bytes(S, i) = Bytes(last.pre, i)

\* C9: no two instances share storage: a write, a setLength or a clear on one
\* instance changes neither the bytes, the length nor the position observed
\* through the other.
C9_InstancesShareNothing ==
  last.op \in LocalWrites
    => Observed(S, Other(last.this)) = Observed(last.pre, Other(last.this))

\* C10 as stated: compress and uncompress with an algorithm name that is none
\* of zlib, deflate, lzma throw in every buffer state, the empty buffer
\* included, and leave storage and position unchanged.
C10_UnknownAlgorithmAlwaysThrows ==
  (last.op \in {"compress", "uncompress"} /\ ~KnownAlgorithm(last.args[1]))
    => /\ err # "none"
       /\ Observed(S, last.this) = Observed(last.pre, last.this)

\* C10 as amended: compress and uncompress with an algorithm name that is none
\* of zlib, deflate, lzma throw when the buffer is not empty and return
\* without an error when it is empty; either way storage and position are
\* unchanged.
C10_UnknownAlgorithmThrowsUnlessEmpty ==
  (last.op \in {"compress", "uncompress"} /\ ~KnownAlgorithm(last.args[1]))
    => /\ err = (IF getLength(last.pre, last.this) = 0 THEN "none" ELSE "Error")
       /\ Observed(S, last.this) = Observed(last.pre, last.this)
       /\ pending = last.pre.pending

\* a call of compress with an unknown algorithm name on a buffer that holds
\* bytes, the cursor not at their end, has thrown
C10_Witness ==
  /\ last.op = "compress"
  /\ ~KnownAlgorithm(last.args[1])
  /\ getLength(last.pre, last.this) > 0
  /\ Pos(last.pre, last.this) < getLength(last.pre, last.this)
  /\ err = "Error"

\* C11: compress and uncompress are atomic for zlib, deflate and lzma: once
\* compress(alg) on a non-empty buffer has returned, storage is the transform's
\* output and position = length(); once uncompress(alg) has returned, storage
\* is the output and position = 0; and no replacement of the storage is left
\* to happen after the cursor was repositioned.
C11_TransformIsAtomic ==
  LET i == last.this
      transformed == /\ KnownAlgorithm(last.args[1])
                     /\ getLength(last.pre, i) > 0
                     /\ err = "none"
  IN  /\ (last.op = "compress" /\ transformed)
           => /\ Bytes(S, i) = last.args[2]
              /\ Pos(S, i) = getLength(S, i)
      /\ (last.op = "uncompress" /\ transformed)
           => /\ Bytes(S, i) = last.args[2].bytes
              /\ Pos(S, i) = 0
      /\ pending = {}

FixedWrites ==
  {"writeBoolean", "writeByte", "writeUnsignedByte", "writeShort", "writeUnsignedShort",
   "writeInt", "writeUnsignedInt", "writeFloat", "writeLong", "writeUnsignedLong",
   "writeDouble"}

\* the width in bytes of the type a fixed-width write encodes
WriteWidth(op) ==
  CASE op \in {"writeBoolean", "writeByte", "writeUnsignedByte"} -> 1
    [] op \in {"writeShort", "writeUnsignedShort"} -> 2
    [] op \in {"writeInt", "writeUnsignedInt", "writeFloat"} -> 4
    [] op \in {"writeLong", "writeUnsignedLong", "writeDouble"} -> 8

\* C13: a fixed-width write of width k made at position p <= length() grows
\* the length by max(0, k - bytesAvailable()), leaves every old byte outside
\* [p, p + k) with its value at its offset, and sets position to p + k; with
\* bytesAvailable() >= k it overwrites in place and the length stays.
C13_FixedWriteFrame ==
  LET i     == last.this
      p     == Pos(last.pre, i)
      k     == WriteWidth(last.op)
      old   == Bytes(last.pre, i)
      new   == Bytes(S, i)
      avail == getBytesAvailable(last.pre, i)
  IN  (last.op \in FixedWrites /\ err = "none" /\ p <= Len(old))
        => /\ Len(new) = Len(old) + (IF k > avail THEN k - avail ELSE 0)
           /\ \A j \in 1 .. Len(old) : (j <= p \/ j > p + k) => new[j] = old[j]
           /\ Pos(S, i) = p + k
           /\ avail >= k => Len(new) = Len(old)

\* a writeShort made one byte before the end of a buffer of four bytes
C13_Witness ==
  /\ last.op = "writeShort"
  /\ err = "none"
  /\ Pos(last.pre, last.this) = 3
  /\ getBytesAvailable(last.pre, last.this) = 1

\* the n bytes of bs from index from on (counted from 0), a byte that bs does
\* not have read as 0
Part(bs, from, n) ==
  [k \in 1 .. n |-> IF from + k >= 1 /\ from + k <= Len(bs) THEN bs[from + k] ELSE 0]

\* C14: for distinct instances S and D, S.readBytes(D, offset, 0) copies
\* exactly S.bytesAvailable() bytes from S's cursor into D at index offset,
\* advances S.position by that count and leaves S's storage and D's position
\* unchanged; S.readBytes(D, offset, length) with length > S.bytesAvailable()
\* throws an end-of-buffer (range) error and changes neither buffer's storage
\* nor position.
C14_ReadBytesCopiesAvailable ==
  LET s      == last.this
      d      == last.args[1]
      offset == last.args[2]
      length == last.args[3]
      p      == Pos(last.pre, s)
      avail  == getBytesAvailable(last.pre, s)
  IN  (last.op = "readBytes" /\ d # s)
        => /\ length = 0
                => /\ err = "none"
                   /\ Part(Bytes(S, d), offset, avail) = Part(Bytes(last.pre, s), p, avail)
                   /\ Pos(S, s) = p + avail
                   /\ Bytes(S, s) = Bytes(last.pre, s)
                   /\ Pos(S, d) = Pos(last.pre, d)
           /\ length > avail
                => /\ err = "RangeError"
                   /\ Observed(S, s) = Observed(last.pre, s)
                   /\ Observed(S, d) = Observed(last.pre, d)

\* C15: for distinct instances R and S and 0 <= offset <= S.length(),
\* R.writeBytes(S, offset, 0) copies exactly the S.length() - offset bytes
\* S[offset ..] into R at R's old position, advances R.position by that count,
\* and leaves S's storage, length and position unchanged.
C15_WriteBytesCopiesRest ==
  LET r      == last.this
      src    == last.args[1]
      offset == last.args[2]
      p      == Pos(last.pre, r)
      n      == getLength(last.pre, src) - offset
  IN  (/\ last.op = "writeBytes" /\ src # r /\ last.args[3] = 0
       /\ 0 <= offset /\ offset <= getLength(last.pre, src))
        => /\ err = "none"
           /\ Part(Bytes(S, r), p, n) = Part(Bytes(last.pre, src), offset, n)
           /\ getLength(S, r) >= p + n
           /\ Pos(S, r) = p + n
           /\ Observed(S, src) = Observed(last.pre, src)

\* C16: for both byte orders, writeByte/readByte for v in [-128, 127],
\* writeUnsignedByte/readUnsignedByte for v in [0, 255], writeShort/readShort
\* for v in [-32768, 32767], writeUnsignedShort/readUnsignedShort for v in
\* [0, 65535] and writeBoolean/readBoolean for both truth values round-trip:
\* the write at position p, then setPosition(p), then the matching read
\* returns v.
C16_SmallTypesRoundTrip ==
  (prog.pc \in {"read", "threw"} /\ prog.type \in RoundTripTypes \ {"int", "utf"})
    => /\ prog.pc = "read"
       /\ ret.t = (IF prog.type = "boolean" THEN "boolean" ELSE "number")
       /\ ret.v = prog.v

\* the least short was written little-endian at position 3 and read back
C16_Witness ==
  /\ prog.pc = "read"
  /\ prog.type = "short"
  /\ prog.v = -32768
  /\ prog.p = 3
  /\ obj["A"].endian = Endian.LITTLE_ENDIAN

\* C17: in every reachable state and for every integer n with
\* 0 <= n < length(), after setLength(n) the storage is the first n bytes of
\* the old storage and position = n, whatever the old position was; for n = 0
\* the state (length 0, position 0, byte order and object encoding unchanged)
\* is the state that clear() gives.
C17_SetLengthTruncates ==
  LET i   == last.this
      n   == last.args[1].n
      old == Bytes(last.pre, i)
  IN  (last.op = "setLength" /\ IsInteger(last.args[1]) /\ 0 <= n /\ n < Len(old))
        => /\ err = "none"
           /\ Bytes(S, i) = SubSeq(old, 1, n)
           /\ Pos(S, i) = n
           /\ obj[i].endian = last.pre.obj[i].endian
           /\ obj[i].objectEncoding = last.pre.obj[i].objectEncoding
           /\ n = 0 => S = St(clear(last.pre, i))

\* a buffer of four bytes with the cursor at 3 was cut to two bytes
C17_Witness ==
  /\ last.op = "setLength"
  /\ last.args[1] = Number(2)
  /\ getLength(last.pre, last.this) = 4
  /\ Pos(last.pre, last.this) = 3
  /\ err = "none"

\* the last call was a truncating setLength or a clear
Truncating ==
  \/ last.op = "clear"
  \/ /\ last.op = "setLength"
     /\ IsInteger(last.args[1])
     /\ last.args[1].n >= 0
     /\ last.args[1].n < getLength(last.pre, last.this)

\* the last step replaced the storage by the output of a transform
Transforming == last.op \in {"compress", "uncompress", "lzmaCallback"}

\* C18 as stated: length() of a buffer never decreases across any operation
\* other than a truncating setLength or clear(): every read, write, bulk copy
\* (on source and destination), setPosition, setEndian, setObjectEncoding,
\* compress and uncompress leaves it greater than or equal to what it was.
C18_LengthNeverDecreases ==
  \A j \in Inst :
    ~(j = last.this /\ Truncating) => getLength(S, j) >= getLength(last.pre, j)

\* C18 as amended: length() of a buffer never decreases across any operation
\* other than a truncating setLength, clear(), compress and uncompress (the
\* completion of an lzma transform included), whose output replaces the
\* storage: every read, write, bulk copy (on source and destination),
\* setPosition, setEndian and setObjectEncoding leaves it greater than or
\* equal to what it was.
C18_LengthDecreasesOnlyByTruncationOrTransform ==
  \A j \in Inst :
    ~(j = last.this /\ (Truncating \/ Transforming))
      => getLength(S, j) >= getLength(last.pre, j)

\* a string was written at the start of a buffer that holds four bytes
C18_Witness ==
  /\ last.op = "writeUTFBytes"
  /\ last.args[1] = <<104, 105>>
  /\ getLength(last.pre, last.this) = 4
  /\ Pos(last.pre, last.this) = 0
  /\ getLength(S, last.this) = 6

\* the last call was a setter given an argument it does not accept
InvalidSetterCall ==
  \/ last.op = "setPosition" /\ last.args[1] < 0
  \/ last.op = "setEndian" /\ last.args[1] \notin {"BE", "LE"}
  \/ last.op = "setObjectEncoding" /\ last.args[1] \notin {0, 3}
  \/ last.op = "setLength" /\ (~IsInteger(last.args[1]) \/ last.args[1].n < 0)

\* C19: a setter called with an invalid argument (setPosition with a negative
\* value, setEndian with a value other than "BE"/"LE", setObjectEncoding with
\* a value other than 0/3, setLength with a negative or non-integer value)
\* throws and leaves storage, position, byte order and object encoding
\* unchanged.
C19_InvalidSetterArgumentThrows ==
  InvalidSetterCall => (err # "none" /\ S = last.pre)

\* setEndian("XE") has thrown on an instance that was little-endian
C19_Witness ==
  /\ last.op = "setEndian"
  /\ last.args[1] = "XE"
  /\ last.pre.obj[last.this].endian = Endian.LITTLE_ENDIAN
  /\ err = "TypeError"

SingleByteOps ==
  {"readByte", "readUnsignedByte", "readBoolean", "writeByte", "writeUnsignedByte",
   "writeBoolean"}

MultiByteIntegerWrites ==
  {"writeShort", "writeUnsignedShort", "writeInt", "writeUnsignedInt", "writeLong",
   "writeUnsignedLong"}

\* the state s with the byte order of instance i set to the other one
OtherEndian(s, i) ==
  [s EXCEPT !.obj[i].endian =
     IF @ = Endian.BIG_ENDIAN THEN Endian.LITTLE_ENDIAN ELSE Endian.BIG_ENDIAN]

\* the call i.op(args) made in state s
Redo(s, i, op, args) ==
  CASE op = "readByte" -> readByte(s, i)
    [] op = "readUnsignedByte" -> readUnsignedByte(s, i)
    [] op = "readBoolean" -> readBoolean(s, i)
    [] op = "writeByte" -> writeByte(s, i, args[1])
    [] op = "writeUnsignedByte" -> writeUnsignedByte(s, i, args[1])
    [] op = "writeBoolean" -> writeBoolean(s, i, args[1])
    [] op = "writeShort" -> writeShort(s, i, args[1])
    [] op = "writeUnsignedShort" -> writeUnsignedShort(s, i, args[1])
    [] op = "writeInt" -> writeInt(s, i, args[1])
    [] op = "writeUnsignedInt" -> writeUnsignedInt(s, i, args[1])
    [] op = "writeLong" -> writeLong(s, i, args[1])
    [] op = "writeUnsignedLong" -> writeUnsignedLong(s, i, args[1])

\* C20: setEndian with a valid value changes only the byte-order flag
\* (storage bytes, length and position stay); the single-byte operations
\* (readByte, readUnsignedByte, readBoolean, writeByte, writeUnsignedByte,
\* writeBoolean) give the same bytes and results under both byte orders; and
\* the bytes a multi-byte integer write produces little-endian are the
\* reversal of the bytes it produces big-endian.
C20_EndianAffectsOnlyMultiByteLayout ==
  LET i     == last.this
      p     == Pos(last.pre, i)
      other == Redo(OtherEndian(last.pre, i), i, last.op, last.args)
  IN  /\ (last.op = "setEndian" /\ last.args[1] \in {"BE", "LE"})
           => /\ err = "none"
              /\ obj[i].endian = last.args[1]
              /\ S = [last.pre EXCEPT !.obj[i].endian = last.args[1]]
      /\ last.op \in SingleByteOps
           => /\ other.err = err
              /\ other.ret = ret
              /\ Observed(St(other), i) = Observed(S, i)
      /\ (last.op \in MultiByteIntegerWrites /\ err = "none")
           => /\ other.err = "none"
              /\ Part(Bytes(St(other), i), p, WriteWidth(last.op))
                   = Reverse(Part(Bytes(S, i), p, WriteWidth(last.op)))

\* 258 was written as an unsigned short on a little-endian instance: the
\* bytes are 2, 1
C20_Witness ==
  /\ last.op = "writeUnsignedShort"
  /\ last.args[1] = 258
  /\ last.pre.obj[last.this].endian = Endian.LITTLE_ENDIAN
  /\ err = "none"
  /\ Part(Bytes(S, last.this), Pos(last.pre, last.this), 2) = <<2, 1>>

\* C21: writeMultiByte(str, charset) with a known charset, from any state,
\* leaves every byte below the old length() unchanged (nothing is overwritten
\* at position), puts the encoded bytes at exactly the indices
\* [old length, old length + encoded length), and increases position by
\* exactly the UTF-8 byte length of str.
C21_WriteMultiByteAppends ==
  LET i   == last.this
      old == Bytes(last.pre, i)
      new == Bytes(S, i)
      bs  == encodeAs(last.args[1], last.args[2])
  IN  (last.op = "writeMultiByte" /\ encodingExists(last.args[2]))
        => /\ err = "none"
           /\ Len(new) = Len(old) + Len(bs)
           /\ SubSeq(new, 1, Len(old)) = old
           /\ SubSeq(new, Len(old) + 1, Len(new)) = bs
           /\ Pos(S, i) = Pos(last.pre, i) + byteLength(last.args[1])

\* "e" with an acute accent was written in latin1 from the start of a buffer
\* that holds four bytes: one byte appended, the cursor moved by two
C21_Witness ==
  /\ last.op = "writeMultiByte"
  /\ last.args = <<(<<233>>), "latin1">>
  /\ getLength(last.pre, last.this) = 4
  /\ Pos(last.pre, last.this) = 0
  /\ getLength(S, last.this) = 5
  /\ Pos(S, last.this) = 2

\* C22: signedOverflow is idempotent: for every bit width b in {8, 16, 32} and
\* every integer v, signedOverflow(signedOverflow(v, b), b) is
\* signedOverflow(v, b).
C22_SignedOverflowIdempotent ==
  so.stage = "twice" => so.r2 = so.r1

\* signedOverflow was applied twice to 2^31 with 32 bits
C22_Witness ==
  /\ so.stage = "twice"
  /\ so.value = W(32768, 0)
  /\ so.bits = 32
  /\ so.r1 = signedOverflow(so.value, so.bits)

\* C23: S.readBytes(D, offset, length) never over-allocates the destination:
\* in every state of D, D.position > 0 included, after a call that returns
\* D.length() is max(old D.length(), offset + length) and the bytes of D
\* outside [offset, offset + length) that existed before are unchanged.
C23_ReadBytesGrowsDestinationToFit ==
  LET s      == last.this
      d      == last.args[1]
      offset == last.args[2]
      n      == IF last.args[3] = 0 THEN getBytesAvailable(last.pre, s) ELSE last.args[3]
      old    == Bytes(last.pre, d)
      new    == Bytes(S, d)
  IN  (last.op = "readBytes" /\ err = "none" /\ n >= 0)
        => /\ Len(new) = (IF Len(old) > offset + n THEN Len(old) ELSE offset + n)
           /\ \A k \in 1 .. Len(old) :
                (k <= offset \/ k > offset + n) => (k <= Len(new) /\ new[k] = old[k])

\* the last call asked for a string of more bytes than were available: more
\* than bytesAvailable() for readMultiByte(n, "utf8") and readUTFBytes(n), a
\* length prefix greater than the bytes that remain after it for readUTF()
AsksBeyondAvailable ==
  LET i     == last.this
      avail == getBytesAvailable(last.pre, i)
  IN  \/ /\ last.op = "readMultiByte"
         /\ last.args[2] = "utf8"
         /\ last.args[1] > avail
      \/ /\ last.op = "readUTFBytes"
         /\ last.args[1] > avail
      \/ /\ last.op = "readUTF"
         /\ avail >= 2
         /\ Pos(last.pre, i) >= 0
         /\ DecUInt16(Field(last.pre, i, Pos(last.pre, i), 2)) > avail - 2

\* C24: a string read that asks for more bytes than are available never
\* returns a value: whatever the storage holds, bytes that are no UTF-8 or
\* that start with the byte-order mark included, readMultiByte(n, "utf8") and
\* readUTFBytes(n) with n > bytesAvailable(), and readUTF() with a length
\* prefix greater than the bytes that remain after it, throw an end-of-buffer
\* (range) error.
C24_StringReadBeyondAvailableThrows ==
  AsksBeyondAvailable => err = "RangeError"

\* C25: writeUTF/readUTF round-trip from any cursor: in every state with
\* position p <= length(), p < length() - 2 included, and for every string s
\* of at most 65535 UTF-8 bytes, after writeUTF(s) the position is
\* p + 2 + utf8len(s), and setPosition(p) followed by readUTF() returns s.
C25_WriteUTFReadUTFRoundTrip ==
  (/\ prog.pc \in {"written", "seeked", "read", "threw"}
   /\ prog.type = "utf"
   /\ prog.p <= prog.n)
    => /\ prog.pc # "threw"
       /\ prog.pc = "written" => Pos(S, "A") = prog.p + 2 + byteLength(prog.v)
       /\ prog.pc = "read" => (ret.t = "string" /\ ret.v = prog.v)

\* C26: writeBytes copies the source bytes as they were before the call, also
\* when source and receiver are the same instance: after
\* A.writeBytes(A, offset, length) with offset + length <= old A.length(), the
\* bytes of A at [old position, old position + length) are the bytes A held at
\* [offset, offset + length) before the call, overlapping ranges included.
C26_WriteBytesFromItself ==
  LET i      == last.this
      offset == last.args[2]
      old    == Bytes(last.pre, i)
      n      == IF last.args[3] = 0 THEN Len(old) - offset ELSE last.args[3]
  IN  (/\ last.op = "writeBytes" /\ last.args[1] = i
       /\ offset >= 0 /\ n >= 0 /\ offset + n <= Len(old))
        => /\ err = "none"
           /\ Part(Bytes(S, i), Pos(last.pre, i), n) = Part(old, offset, n)

=============================================================================
